---- MODULE Spec2Model ----
(***************************************************************************)
(* A model of the three geocoder clients of geopy/geocoders: Baidu         *)
(* (baidu.py), GaoDe (gaode.py) and Tencent (tencent.py).                  *)
(*                                                                         *)
(* One call at a time runs on the clients: an operation builds its         *)
(* request parameters, issues the HTTP call, receives the decoded JSON     *)
(* page (or a transport error) and parses the page into its outcome: a     *)
(* returned value or a raised exception.                                   *)
(*                                                                         *)
(* Python values are modelled by tagged records, so that 0 and "0" are     *)
(* different values, a missing key differs from an empty container, and    *)
(* an attribute or key lookup on the wrong kind of value raises the        *)
(* exception Python raises.  Coordinate strings are sequences of           *)
(* one-character strings, so that formatting, joining and splitting are    *)
(* computed.                                                               *)
(***************************************************************************)
EXTENDS Integers, Sequences, FiniteSets, TLC

VARIABLES config, pc, call, args, params, requests, page, outcome

vars == <<config, pc, call, args, params, requests, page, outcome>>

(***************************************************************************)
(* Bounds of the model.                                                    *)
(***************************************************************************)
\* The largest absolute value of a coordinate.
MaxCoord == 12
\* The largest number of entries of a list in a response.
MaxHits == 2
\* How far the status codes tried reach beyond each provider's table.
StatusSlack == 10

(***************************************************************************)
(* Python values.                                                          *)
(***************************************************************************)
\* A status value of a page: an integer, a string, or None (key missing).
PyInt(n) == [t |-> "int", n |-> n, s |-> ""]
PyStr(s) == [t |-> "str", n |-> 0, s |-> s]
PyNone == [t |-> "none", n |-> 0, s |-> ""]

\* A text value (a name, an address): unicode text, an encoded byte string,
\* or None.
Text(s) == [t |-> "unicode", s |-> s]
NoText == [t |-> "none", s |-> ""]
\* unicode.encode('utf-8')
Encode(x) == [t |-> "bytes", s |-> x.s]

\* A coordinate as it reaches a Location: a number of the payload or a
\* string cut from a "a,b" string.
NumCoord(n) == [t |-> "num", n |-> n, cs |-> <<>>]
StrCoord(cs) == [t |-> "str", n |-> 0, cs |-> cs]

\* seq[i] of Python, whose indices start at 0.
PyIndex(seq, i) == seq[i + 1]

(***************************************************************************)
(* Strings as sequences of characters.                                     *)
(***************************************************************************)
Comma == ","

Digit(d) == CASE d = 0 -> "0" [] d = 1 -> "1" [] d = 2 -> "2" [] d = 3 -> "3"
              [] d = 4 -> "4" [] d = 5 -> "5" [] d = 6 -> "6" [] d = 7 -> "7"
              [] d = 8 -> "8" [] d = 9 -> "9"

RECURSIVE NatToStr(_)
NatToStr(n) == IF n < 10 THEN <<Digit(n)>>
               ELSE Append(NatToStr(n \div 10), Digit(n % 10))

\* str(n) of an integer
IntToStr(n) == IF n < 0 THEN <<"-">> \o NatToStr(-n) ELSE NatToStr(n)

\* ",".join((a, b))
JoinComma(a, b) == a \o <<Comma>> \o b

\* s.split(','): the parts of s between its commas, at least one part.
RECURSIVE SplitFrom(_, _, _)
SplitFrom(s, i, cur) ==
    IF i > Len(s) THEN <<cur>>
    ELSE IF s[i] = Comma THEN <<cur>> \o SplitFrom(s, i + 1, <<>>)
    ELSE SplitFrom(s, i + 1, Append(cur, s[i]))

SplitComma(s) == SplitFrom(s, 1, <<>>)

(***************************************************************************)
(* Outcomes of a call and results.                                         *)
(***************************************************************************)
QueryError == "GeocoderQueryError"
AuthenticationFailure == "GeocoderAuthenticationFailure"
QuotaExceeded == "GeocoderQuotaExceeded"
ErrorKinds == {QueryError, AuthenticationFailure, QuotaExceeded}

NoneVal == [k |-> "none", locs |-> <<>>]
One(l) == [k |-> "one", locs |-> <<l>>]
List(ls) == [k |-> "list", locs |-> ls]

Return(v) == [kind |-> "return", exc |-> "", val |-> v]
Raise(e) == [kind |-> "raise", exc |-> e, val |-> NoneVal]
NoOutcome == [kind |-> "none", exc |-> "", val |-> NoneVal]

\* Location(address, (latitude, longitude), raw)
Location(address, point, raw) ==
    [address |-> address, latitude |-> point[1], longitude |-> point[2],
     raw |-> raw]

(***************************************************************************)
(* _check_status of each provider: the success test, then the chain of     *)
(* comparisons that picks the exception to raise.                          *)
(***************************************************************************)
\* gaode.py: the if/elif chain after the success test
GaoDe_status_error(status) ==
    CASE status = PyStr("10001") -> AuthenticationFailure
      [] status = PyStr("10002") -> AuthenticationFailure
      [] status = PyStr("10003") -> QuotaExceeded
      [] status = PyStr("10004") -> QuotaExceeded
      [] status = PyStr("10005") -> QueryError
      [] status = PyStr("10006") -> QueryError
      [] status = PyStr("10007") -> QueryError
      [] status = PyStr("10008") -> QueryError
      [] status = PyStr("10009") -> QuotaExceeded
      [] status = PyStr("10010") -> QuotaExceeded
      [] status = PyStr("10011") -> QuotaExceeded
      [] status = PyStr("10012") -> QuotaExceeded
      [] status = PyStr("10013") -> QuotaExceeded
      [] status = PyStr("10014") -> QuotaExceeded
      [] status = PyStr("10015") -> QuotaExceeded
      [] status = PyStr("10016") -> QuotaExceeded
      [] status = PyStr("10017") -> QuotaExceeded
      [] status = PyStr("20000") -> QuotaExceeded
      [] status = PyStr("20001") -> QuotaExceeded
      [] status = PyStr("20002") -> QuotaExceeded
      [] status = PyStr("20003") -> QuotaExceeded
      [] status = PyStr("20800") -> QuotaExceeded
      [] status = PyStr("20801") -> QuotaExceeded
      [] status = PyStr("20802") -> QuotaExceeded
      [] status = PyStr("20803") -> QuotaExceeded
      [] status = PyStr("300**") -> QuotaExceeded
      [] OTHER -> QueryError

\* The status is compared with the integer, as Tencent's check does.
GaoDe_check_status_int(status) ==
    IF status = PyInt(10000) THEN Return(NoneVal)
    ELSE Raise(GaoDe_status_error(status))

GaoDe_check_status(status) ==
    IF status = PyStr("10000") THEN Return(NoneVal)
    ELSE Raise(GaoDe_status_error(status))

\* baidu.py: the if/elif chain after the success test
Baidu_status_error(status) ==
    CASE status = PyStr("1") \/ status = PyInt(1) -> QueryError
      [] status = PyStr("2") \/ status = PyInt(2) -> QueryError
      [] status = PyStr("3") \/ status = PyInt(3) -> AuthenticationFailure
      [] status = PyStr("4") \/ status = PyInt(4) -> QuotaExceeded
      [] status = PyStr("5") \/ status = PyInt(5) -> QueryError
      [] status = PyStr("101") \/ status = PyInt(101) -> QueryError
      [] status = PyStr("102") \/ status = PyInt(102) -> QueryError
      [] status = PyStr("2xx") -> QueryError
      [] status = PyStr("3xx") -> QuotaExceeded
      [] OTHER -> QueryError

\* Only the string form of the success code is accepted.
Baidu_check_status_str(status) ==
    IF status = PyStr("0") THEN Return(NoneVal)
    ELSE Raise(Baidu_status_error(status))

Baidu_check_status(status) ==
    IF status = PyStr("0") \/ status = PyInt(0) THEN Return(NoneVal)
    ELSE Raise(Baidu_status_error(status))

\* tencent.py: the if/elif chain after the success test
Tencent_status_error(status) ==
    CASE status = PyInt(110) -> QueryError
      [] status = PyInt(306) -> QueryError
      [] status = PyInt(310) -> AuthenticationFailure
      [] status = PyInt(311) -> QuotaExceeded
      [] OTHER -> QueryError

\* The string form of the success code is accepted too, as Baidu's check does.
Tencent_check_status_both(status) ==
    IF status = PyStr("0") \/ status = PyInt(0) THEN Return(NoneVal)
    ELSE Raise(Tencent_status_error(status))

Tencent_check_status(status) ==
    IF status = PyInt(0) THEN Return(NoneVal)
    ELSE Raise(Tencent_status_error(status))

\* self._check_status of a client of the provider
CheckStatus(provider, status) ==
    CASE provider = "Baidu" -> Baidu_check_status(status)
      [] provider = "GaoDe" -> GaoDe_check_status(status)
      [] provider = "Tencent" -> Tencent_check_status(status)

(***************************************************************************)
(* The decoded JSON page of a response.  A page holds the status field the *)
(* operation reads ('status' or 'infocode') and the result field it reads  *)
(* ('result', 'results', 'geocodes', 'pois' or 'regeocode').  The result   *)
(* is missing, a dict (empty, or one place) or a list of places.  A place  *)
(* is a dict with the name field the operation reads and a location,       *)
(* which is missing, a dict of lat and lng, or a string.                   *)
(***************************************************************************)
NoLoc == [k |-> "missing", lat |-> 0, lng |-> 0, cs |-> <<>>]
DictLoc(lat, lng) == [k |-> "dict", lat |-> lat, lng |-> lng, cs |-> <<>>]
StrLoc(cs) == [k |-> "str", lat |-> 0, lng |-> 0, cs |-> cs]

Place(name, loc) == [name |-> name, loc |-> loc]

NoResult == [k |-> "missing", items |-> <<>>]
DictResult(items) == [k |-> "dict", items |-> items]
ListResult(items) == [k |-> "list", items |-> items]

Page(status, result) == [status |-> status, result |-> result]
\* No page has been received.
NoPage == Page([t |-> "nopage", n |-> 0, s |-> ""], NoResult)

\* "not place" of a result: None, {} and [] are false.
Falsy(result) == result.k = "missing" \/ result.items = <<>>

\* "check the status, then return the value"
CheckThenReturn(check, v) == IF check.kind = "raise" THEN check ELSE Return(v)

(***************************************************************************)
(* baidu.py                                                                *)
(***************************************************************************)
\* latitude = place['location']['lat']; longitude = place['location']['lng'];
\* return Location(location, (latitude, longitude), place)
Baidu_place_location(location, place) ==
    CASE place.loc.k = "missing" -> Raise("KeyError")
      [] place.loc.k = "str" -> Raise("TypeError")
      [] place.loc.k = "dict" ->
           Return(One(Location(location,
                               <<NumCoord(place.loc.lat), NumCoord(place.loc.lng)>>,
                               place)))

\* Baidu._parse_reverse_json
Baidu_parse_reverse_json(pg) ==
    LET place == pg.result IN
    IF place.k # "dict" THEN Raise("AttributeError")
    ELSE IF place.items = <<>> THEN Raise("AttributeError")
    ELSE IF place.items[1].name.t = "none" THEN Raise("AttributeError")
    ELSE Baidu_place_location(Encode(place.items[1].name), place.items[1])

\* A hit without location is not guarded against, as in _parse_json.
Baidu_search_parse_place_noguard(place) ==
    Baidu_place_location(place.name, place)

\* parse_place of Baidu._parse_search_json
Baidu_search_parse_place(place) ==
    IF place.loc.k = "missing" THEN Return(NoneVal)
    ELSE Baidu_place_location(place.name, place)

\* The loop of Baidu._parse_search_json over the hits.
RECURSIVE Baidu_search_loop(_, _)
Baidu_search_loop(items, res) ==
    IF items = <<>> THEN Return(List(res))
    ELSE LET parse == Baidu_search_parse_place(Head(items)) IN
         IF parse.kind = "raise" THEN parse
         ELSE IF parse.val.k = "one"
              THEN Baidu_search_loop(Tail(items), Append(res, parse.val.locs[1]))
              ELSE Baidu_search_loop(Tail(items), res)

\* exactly_one answered with the first hit that has a location.
Baidu_parse_search_json_firstlocated(pg, exactly_one) ==
    LET place == pg.result IN
    IF Falsy(place) THEN CheckThenReturn(Baidu_check_status(pg.status), List(<<>>))
    ELSE IF place.k # "list"
         THEN Raise(IF exactly_one THEN "KeyError" ELSE "AttributeError")
    ELSE LET all == Baidu_search_loop(place.items, <<>>) IN
         IF ~exactly_one \/ all.kind = "raise" THEN all
         ELSE IF all.val.locs = <<>> THEN Return(NoneVal)
         ELSE Return(One(all.val.locs[1]))

\* Baidu._parse_search_json
Baidu_parse_search_json(pg, exactly_one) ==
    LET place == pg.result IN
    IF Falsy(place) THEN CheckThenReturn(Baidu_check_status(pg.status), List(<<>>))
    ELSE IF exactly_one
         THEN IF place.k = "list" THEN Baidu_search_parse_place(PyIndex(place.items, 0))
              ELSE Raise("KeyError")
         ELSE IF place.k = "list" THEN Baidu_search_loop(place.items, <<>>)
              ELSE Raise("AttributeError")

\* parse_place of Baidu._parse_json
Baidu_parse_place(place) == Baidu_place_location(place.name, place)

\* [parse_place(item) for item in place] of Baidu._parse_json
RECURSIVE Baidu_parse_places(_)
Baidu_parse_places(items) ==
    IF items = <<>> THEN Return(List(<<>>))
    ELSE LET first == Baidu_parse_place(Head(items)) IN
         IF first.kind = "raise" THEN first
         ELSE LET rest == Baidu_parse_places(Tail(items)) IN
              IF rest.kind = "raise" THEN rest
              ELSE Return(List(first.val.locs \o rest.val.locs))

\* The status of a page without result is not checked.
Baidu_parse_json_nocheck(pg, exactly_one) ==
    LET place == pg.result IN
    IF Falsy(place) THEN Return(NoneVal)
    ELSE IF exactly_one
         THEN IF place.k = "dict" THEN Baidu_parse_place(place.items[1])
              ELSE Raise("AttributeError")
         ELSE IF place.k = "list" THEN Baidu_parse_places(place.items)
              ELSE Raise("AttributeError")

\* Baidu._parse_json
Baidu_parse_json(pg, exactly_one) ==
    LET place == pg.result IN
    IF Falsy(place) THEN CheckThenReturn(Baidu_check_status(pg.status), NoneVal)
    ELSE IF exactly_one
         THEN IF place.k = "dict" THEN Baidu_parse_place(place.items[1])
              ELSE Raise("AttributeError")
         ELSE IF place.k = "list" THEN Baidu_parse_places(place.items)
              ELSE Raise("AttributeError")

(***************************************************************************)
(* tencent.py                                                              *)
(***************************************************************************)
\* latitude = place['location']['lat']; longitude = place['location']['lng'];
\* return Location(location, (latitude, longitude), place)
Tencent_place_location(location, place) ==
    CASE place.loc.k = "missing" -> Raise("KeyError")
      [] place.loc.k = "str" -> Raise("TypeError")
      [] place.loc.k = "dict" ->
           Return(One(Location(location,
                               <<NumCoord(place.loc.lat), NumCoord(place.loc.lng)>>,
                               place)))

\* Tencent._parse_reverse_json
Tencent_parse_reverse_json(pg) ==
    LET place == pg.result IN
    IF place.k # "dict" THEN Raise("TypeError")
    ELSE IF place.items = <<>> THEN Raise("KeyError")
    ELSE IF place.items[1].name.t = "none" THEN Raise("KeyError")
    ELSE Tencent_place_location(Encode(place.items[1].name), place.items[1])

\* parse_place of Tencent._parse_json
Tencent_parse_place(place) == Tencent_place_location(place.name, place)

\* [parse_place(item) for item in place] of Tencent._parse_json
RECURSIVE Tencent_parse_places(_)
Tencent_parse_places(items) ==
    IF items = <<>> THEN Return(List(<<>>))
    ELSE LET first == Tencent_parse_place(Head(items)) IN
         IF first.kind = "raise" THEN first
         ELSE LET rest == Tencent_parse_places(Tail(items)) IN
              IF rest.kind = "raise" THEN rest
              ELSE Return(List(first.val.locs \o rest.val.locs))

\* Tencent._parse_json
Tencent_parse_json(pg, exactly_one) ==
    LET place == pg.result IN
    IF Falsy(place) THEN CheckThenReturn(Tencent_check_status(pg.status), NoneVal)
    ELSE IF exactly_one
         THEN IF place.k = "dict" THEN Tencent_parse_place(place.items[1])
              ELSE Raise("AttributeError")
         ELSE IF place.k = "list" THEN Tencent_parse_places(place.items)
              ELSE Raise("AttributeError")

(***************************************************************************)
(* gaode.py                                                                *)
(***************************************************************************)
\* GaoDe._parse_reverse_json: point is the split "location" parameter.
GaoDe_parse_reverse_json(pg, point) ==
    LET place == pg.result IN
    IF place.k # "dict" THEN Raise("AttributeError")
    ELSE IF place.items = <<>> THEN Raise("AttributeError")
    ELSE IF place.items[1].name.t = "none" THEN Raise("AttributeError")
    ELSE IF Len(point) < 2 THEN Raise("IndexError")
    ELSE LET location == Encode(place.items[1].name)
             latitude == PyIndex(point, 1)
             longitude == PyIndex(point, 0)
         IN Return(One(Location(location,
                                <<StrCoord(latitude), StrCoord(longitude)>>,
                                place.items[1])))

\* The first part of the location string is read as the latitude.
GaoDe_place_location_latfirst(location, place) ==
    CASE place.loc.k = "missing" -> Raise("AttributeError")
      [] place.loc.k = "dict" -> Raise("AttributeError")
      [] place.loc.k = "str" ->
           LET coordinate == SplitComma(place.loc.cs) IN
           IF Len(coordinate) < 2 THEN Raise("IndexError")
           ELSE LET latitude == PyIndex(coordinate, 0)
                    longitude == PyIndex(coordinate, 1)
                IN Return(One(Location(location,
                                       <<StrCoord(latitude), StrCoord(longitude)>>,
                                       place)))

\* coordinate = place.get('location').split(','); longitude = coordinate[0];
\* latitude = coordinate[1]; return Location(location, (latitude, longitude), place)
GaoDe_place_location(location, place) ==
    CASE place.loc.k = "missing" -> Raise("AttributeError")
      [] place.loc.k = "dict" -> Raise("AttributeError")
      [] place.loc.k = "str" ->
           LET coordinate == SplitComma(place.loc.cs) IN
           IF Len(coordinate) < 2 THEN Raise("IndexError")
           ELSE LET longitude == PyIndex(coordinate, 0)
                    latitude == PyIndex(coordinate, 1)
                IN Return(One(Location(location,
                                       <<StrCoord(latitude), StrCoord(longitude)>>,
                                       place)))

\* parse_place of GaoDe._parse_search_json and of GaoDe._parse_json
GaoDe_parse_place(place) == GaoDe_place_location(place.name, place)

\* [parse_place(item) for item in place]
RECURSIVE GaoDe_parse_places(_)
GaoDe_parse_places(items) ==
    IF items = <<>> THEN Return(List(<<>>))
    ELSE LET first == GaoDe_parse_place(Head(items)) IN
         IF first.kind = "raise" THEN first
         ELSE LET rest == GaoDe_parse_places(Tail(items)) IN
              IF rest.kind = "raise" THEN rest
              ELSE Return(List(first.val.locs \o rest.val.locs))

\* GaoDe._parse_search_json
GaoDe_parse_search_json(pg, exactly_one) ==
    LET place == pg.result IN
    IF Falsy(place) THEN CheckThenReturn(GaoDe_check_status(pg.status), NoneVal)
    ELSE IF exactly_one
         THEN IF place.k = "list" THEN GaoDe_parse_place(PyIndex(place.items, 0))
              ELSE Raise("KeyError")
         ELSE IF place.k = "list" THEN GaoDe_parse_places(place.items)
              ELSE Raise("AttributeError")

\* GaoDe._parse_json
GaoDe_parse_json(pg, exactly_one) ==
    LET place == pg.result IN
    IF Falsy(place) THEN CheckThenReturn(GaoDe_check_status(pg.status), NoneVal)
    ELSE IF exactly_one
         THEN IF place.k = "list" THEN GaoDe_parse_place(PyIndex(place.items, 0))
              ELSE Raise("KeyError")
         ELSE IF place.k = "list" THEN GaoDe_parse_places(place.items)
              ELSE Raise("AttributeError")

(***************************************************************************)
(* The clients and their calls.                                            *)
(***************************************************************************)
Providers == {"Baidu", "GaoDe", "Tencent"}

\* __init__ of each client: the fields set at construction.
Baidu_init ==
    [api_key |-> "KEY", scheme |-> "http", doc |-> "{}",
     api |-> "http://api.map.baidu.com/geocoder/v2/",
     search_api |-> "http://api.map.baidu.com/place/v2/search"]

GaoDe_init ==
    [api_key |-> "KEY", scheme |-> "http", doc |-> "{}",
     api |-> "http://restapi.amap.com/v3/geocode/",
     search_api |-> "http://restapi.amap.com/v3/place/text"]

Tencent_init ==
    [api_key |-> "KEY", scheme |-> "http", doc |-> "{}",
     api |-> "http://apis.map.qq.com/ws/geocoder/v1/",
     search_api |-> ""]

\* The query of a call: a text, a (latitude, longitude) pair or a string
\* holding a point; NoQuery is an argument left at None.
NoQuery == [k |-> "none", lat |-> 0, lng |-> 0, cs |-> <<>>]
TextQuery == [k |-> "text", lat |-> 0, lng |-> 0, cs |-> <<>>]
PairQuery(lat, lng) == [k |-> "pair", lat |-> lat, lng |-> lng, cs |-> <<>>]
StrQuery(cs) == [k |-> "str", lat |-> 0, lng |-> 0, cs |-> cs]

\* The (latitude, longitude) points tried.
Points == {<<3, -MaxCoord>>, <<MaxCoord, 3>>}

PointQueries ==
    {PairQuery(p[1], p[2]) : p \in Points}
    \cup {StrQuery(JoinComma(IntToStr(p[1]), IntToStr(p[2]))) : p \in Points}
    \cup {StrQuery(IntToStr(3) \o <<Comma, " ">> \o IntToStr(-MaxCoord))}

\* Geocoder._coerce_point_to_string: "lat,lng" of a pair, a string as it is.
CoercePointToString(query) ==
    IF query.k = "pair" THEN JoinComma(IntToStr(query.lat), IntToStr(query.lng))
    ELSE query.cs

\* The optional arguments of a call, each at its default when not passed.
NoArgs ==
    [city |-> NoText, bounds |-> NoQuery, location |-> NoQuery,
     radius |-> NoText, tag |-> NoText, ret_coordtype |-> NoText,
     coordtype |-> NoText, city_limit |-> FALSE]

OptText(name) == {NoText, Text(name)}
OptPoint == {NoQuery, PairQuery(3, -MaxCoord)}

\* The request parameters: a dict from keys to values.  A value is a text
\* or, for a point, the string the point was coerced to.
ParamText(s) == [s |-> s, cs |-> <<>>]
ParamChars(cs) == [s |-> "", cs |-> cs]
NoParams == [k \in {} |-> ParamText("")]

\* params.update({key: val})
Update(prm, key, val) ==
    [k \in DOMAIN prm \cup {key} |-> IF k = key THEN val ELSE prm[k]]

\* params.update({key: arg}) when the argument is true
UpdateIf(prm, key, arg) ==
    IF arg.t = "none" THEN prm ELSE Update(prm, key, ParamText(arg.s))

NoCall == [provider |-> "", op |-> "", exactly_one |-> TRUE, query |-> NoQuery]
Call(provider, op, exactly_one, query) ==
    [provider |-> provider, op |-> op, exactly_one |-> exactly_one,
     query |-> query]

(***************************************************************************)
(* The pages a provider may answer with.                                   *)
(***************************************************************************)
SeqsUpTo(S, n) == UNION {[1..k -> S] : k \in 0..n}

Names == {Text("X"), NoText}

Locs(provider) ==
    IF provider = "GaoDe"
    THEN {NoLoc, StrLoc(IntToStr(3))}
         \cup {StrLoc(JoinComma(IntToStr(p[2]), IntToStr(p[1]))) : p \in Points}
    ELSE {NoLoc} \cup {DictLoc(p[1], p[2]) : p \in Points}

Places(provider) == {Place(n, l) : n \in Names, l \in Locs(provider)}

Results(provider) ==
    {NoResult, DictResult(<<>>)}
    \cup {DictResult(<<e>>) : e \in Places(provider)}
    \cup {ListResult(s) : s \in SeqsUpTo(Places(provider), MaxHits)}

\* The status values tried in the calls: the success codes, a code of each
\* error kind, an unknown code and a missing status.
CallStatuses(provider) ==
    CASE provider = "Baidu" ->
           {PyInt(0), PyStr("0"), PyInt(1), PyInt(3), PyStr("4"), PyStr("3xx"),
            PyInt(999), PyNone}
      [] provider = "GaoDe" ->
           {PyStr("10000"), PyStr("10001"), PyStr("10003"), PyStr("10005"),
            PyStr("20004"), PyStr("99999"), PyNone}
      [] provider = "Tencent" ->
           {PyInt(0), PyInt(110), PyInt(310), PyInt(311), PyInt(999), PyNone}

Pages(provider) ==
    {Page(s, r) : s \in CallStatuses(provider), r \in Results(provider)}

(***************************************************************************)
(* The state machine.                                                      *)
(***************************************************************************)
Init ==
    /\ config = [p \in Providers |->
                   CASE p = "Baidu" -> Baidu_init
                     [] p = "GaoDe" -> GaoDe_init
                     [] p = "Tencent" -> Tencent_init]
    /\ pc = "idle"
    /\ call = NoCall
    /\ args = NoArgs
    /\ params = NoParams
    /\ requests = 0
    /\ page = NoPage
    /\ outcome = NoOutcome

\* A call starts: the state every operation sets before it builds its
\* parameters.
Begin(c, a, prm) ==
    /\ pc = "idle"
    /\ pc' = "built"
    /\ call' = c
    /\ args' = a
    /\ params' = prm
    /\ requests' = 0
    /\ page' = NoPage
    /\ outcome' = NoOutcome
    /\ UNCHANGED config

\* params of Baidu.geocode
Baidu_geocode_params(self, city, ret_coordtype) ==
    LET p0 == [k \in {"ak", "output", "address"} |->
                 CASE k = "ak" -> ParamText(self.api_key)
                   [] k = "output" -> ParamText("json")
                   [] k = "address" -> ParamText("query")]
        p1 == UpdateIf(p0, "city", city)
        p2 == UpdateIf(p1, "ret_coordtype", ret_coordtype)
    IN p2

\* The bounds are sent whenever bounds is given, whatever location is.
Baidu_search_params_bounds(self, city, bounds, location, radius, tag, ret_coordtype, coordtype, city_limit) ==
    LET p0 == [k \in {"ak", "output", "query", "scope"} |->
                 CASE k = "ak" -> ParamText(self.api_key)
                   [] k = "output" -> ParamText("json")
                   [] k = "query" -> ParamText("query")
                   [] k = "scope" -> ParamText("2")]
        p1 == UpdateIf(p0, "region", city)
        p2 == IF bounds.k # "none"
              THEN Update(p1, "bounds",
                          ParamChars(JoinComma(CoercePointToString(bounds),
                                               CoercePointToString(location))))
              ELSE p1
        p3 == IF location.k # "none" /\ radius.t # "none"
              THEN Update(Update(p2, "location",
                                 ParamChars(CoercePointToString(location))),
                          "radius", ParamText(radius.s))
              ELSE p2
        p4 == UpdateIf(p3, "tag", tag)
        p5 == UpdateIf(p4, "ret_coordtype", ret_coordtype)
        p6 == UpdateIf(p5, "coord_type", coordtype)
        p7 == IF city_limit THEN Update(p6, "city_limit", ParamText("true"))
              ELSE p6
    IN p7

\* params of Baidu.search
Baidu_search_params(self, city, bounds, location, radius, tag, ret_coordtype, coordtype, city_limit) ==
    LET p0 == [k \in {"ak", "output", "query", "scope"} |->
                 CASE k = "ak" -> ParamText(self.api_key)
                   [] k = "output" -> ParamText("json")
                   [] k = "query" -> ParamText("query")
                   [] k = "scope" -> ParamText("2")]
        p1 == UpdateIf(p0, "region", city)
        p2 == IF bounds.k # "none" /\ location.k # "none"
              THEN Update(p1, "bounds",
                          ParamChars(JoinComma(CoercePointToString(bounds),
                                               CoercePointToString(location))))
              ELSE p1
        p3 == IF location.k # "none" /\ radius.t # "none"
              THEN Update(Update(p2, "location",
                                 ParamChars(CoercePointToString(location))),
                          "radius", ParamText(radius.s))
              ELSE p2
        p4 == UpdateIf(p3, "tag", tag)
        p5 == UpdateIf(p4, "ret_coordtype", ret_coordtype)
        p6 == UpdateIf(p5, "coord_type", coordtype)
        p7 == IF city_limit THEN Update(p6, "city_limit", ParamText("true"))
              ELSE p6
    IN p7

\* params of Baidu.reverse
Baidu_reverse_params(self, query, coordtype) ==
    LET p0 == [k \in {"ak", "output", "location"} |->
                 CASE k = "ak" -> ParamText(self.api_key)
                   [] k = "output" -> ParamText("json")
                   [] k = "location" -> ParamChars(CoercePointToString(query))]
        p1 == UpdateIf(p0, "coordtype", coordtype)
    IN p1

\* params of GaoDe.geocode
GaoDe_geocode_params(self, exactly_one, city) ==
    LET p0 == [k \in {"key", "output", "address"} |->
                 CASE k = "key" -> ParamText(self.api_key)
                   [] k = "output" -> ParamText("json")
                   [] k = "address" -> ParamText("query")]
        p1 == UpdateIf(p0, "city", city)
        p2 == IF ~exactly_one THEN Update(p1, "batch", ParamText("true"))
              ELSE p1
    IN p2

\* params of GaoDe.search
GaoDe_search_params(self, city) ==
    LET p0 == [k \in {"key", "keywords", "output"} |->
                 CASE k = "key" -> ParamText(self.api_key)
                   [] k = "keywords" -> ParamText("query")
                   [] k = "output" -> ParamText("json")]
        p1 == UpdateIf(p0, "city", city)
    IN p1

\* params of GaoDe.reverse
GaoDe_reverse_params(self, query) ==
    [k \in {"key", "output", "location"} |->
       CASE k = "key" -> ParamText(self.api_key)
         [] k = "output" -> ParamText("json")
         [] k = "location" -> ParamChars(CoercePointToString(query))]

\* params of Tencent.geocode
Tencent_geocode_params(self) ==
    [k \in {"key", "output", "address"} |->
       CASE k = "key" -> ParamText(self.api_key)
         [] k = "output" -> ParamText("json")
         [] k = "address" -> ParamText("query")]

\* params of Tencent.reverse
Tencent_reverse_params(self, query) ==
    [k \in {"key", "output", "location"} |->
       CASE k = "key" -> ParamText(self.api_key)
         [] k = "output" -> ParamText("json")
         [] k = "location" -> ParamChars(CoercePointToString(query))]

\* Baidu.geocode up to the url
BaiduGeocode ==
    \E exactly_one \in BOOLEAN, city \in OptText("city"),
       ret_coordtype \in OptText("ret_coordtype") :
       Begin(Call("Baidu", "geocode", exactly_one, TextQuery),
             [NoArgs EXCEPT !.city = city, !.ret_coordtype = ret_coordtype],
             Baidu_geocode_params(config["Baidu"], city, ret_coordtype))

\* Baidu.search up to the url
BaiduSearch ==
    \E exactly_one \in BOOLEAN, city \in OptText("city"), bounds \in OptPoint,
       location \in OptPoint, radius \in OptText("radius"),
       tag \in OptText("tag"), ret_coordtype \in OptText("ret_coordtype"),
       coordtype \in OptText("coordtype"), city_limit \in BOOLEAN :
       Begin(Call("Baidu", "search", exactly_one, TextQuery),
             [city |-> city, bounds |-> bounds, location |-> location,
              radius |-> radius, tag |-> tag,
              ret_coordtype |-> ret_coordtype, coordtype |-> coordtype,
              city_limit |-> city_limit],
             Baidu_search_params(config["Baidu"], city, bounds, location,
                                 radius, tag, ret_coordtype, coordtype,
                                 city_limit))

\* Baidu.reverse up to the url
BaiduReverse ==
    \E query \in PointQueries, coordtype \in OptText("coordtype") :
       Begin(Call("Baidu", "reverse", TRUE, query),
             [NoArgs EXCEPT !.coordtype = coordtype],
             Baidu_reverse_params(config["Baidu"], query, coordtype))

\* GaoDe.geocode up to the url
GaoDeGeocode ==
    \E exactly_one \in BOOLEAN, city \in OptText("city") :
       Begin(Call("GaoDe", "geocode", exactly_one, TextQuery),
             [NoArgs EXCEPT !.city = city],
             GaoDe_geocode_params(config["GaoDe"], exactly_one, city))

\* GaoDe.search up to the url
GaoDeSearch ==
    \E exactly_one \in BOOLEAN, city \in OptText("city") :
       Begin(Call("GaoDe", "search", exactly_one, TextQuery),
             [NoArgs EXCEPT !.city = city],
             GaoDe_search_params(config["GaoDe"], city))

\* GaoDe.reverse up to the url
GaoDeReverse ==
    \E query \in PointQueries :
       Begin(Call("GaoDe", "reverse", TRUE, query), NoArgs,
             GaoDe_reverse_params(config["GaoDe"], query))

\* Tencent.geocode up to the url
TencentGeocode ==
    \E exactly_one \in BOOLEAN :
       Begin(Call("Tencent", "geocode", exactly_one, TextQuery), NoArgs,
             Tencent_geocode_params(config["Tencent"]))

\* Tencent.reverse up to the url
TencentReverse ==
    \E query \in PointQueries :
       Begin(Call("Tencent", "reverse", TRUE, query), NoArgs,
             Tencent_reverse_params(config["Tencent"], query))

\* self._call_geocoder(url, timeout=timeout): the one HTTP request of a call
CallGeocoder ==
    /\ pc = "built"
    /\ pc' = "waiting"
    /\ requests' = requests + 1
    /\ UNCHANGED <<config, call, args, params, page, outcome>>

\* The parser the operation hands the page to.
Parse(c, pg, prm) ==
    CASE c.provider = "Baidu" /\ c.op = "geocode" ->
           Baidu_parse_json(pg, c.exactly_one)
      [] c.provider = "Baidu" /\ c.op = "search" ->
           Baidu_parse_search_json(pg, c.exactly_one)
      [] c.provider = "Baidu" /\ c.op = "reverse" ->
           Baidu_parse_reverse_json(pg)
      [] c.provider = "GaoDe" /\ c.op = "geocode" ->
           GaoDe_parse_json(pg, c.exactly_one)
      [] c.provider = "GaoDe" /\ c.op = "search" ->
           GaoDe_parse_search_json(pg, c.exactly_one)
      [] c.provider = "GaoDe" /\ c.op = "reverse" ->
           GaoDe_parse_reverse_json(pg, SplitComma(prm["location"].cs))
      [] c.provider = "Tencent" /\ c.op = "geocode" ->
           Tencent_parse_json(pg, c.exactly_one)
      [] c.provider = "Tencent" /\ c.op = "reverse" ->
           Tencent_parse_reverse_json(pg)

\* The HTTP call returns a page; the operation parses it and returns or
\* raises.  The locals of the call end with it.
Receive ==
    /\ pc = "waiting"
    /\ \E pg \in Pages(call.provider) :
          /\ page' = pg
          /\ outcome' = Parse(call, pg, params)
    /\ pc' = "done"
    /\ args' = NoArgs
    /\ params' = NoParams
    /\ UNCHANGED <<config, call, requests>>

\* The operation answers a failed HTTP call with a second one.
TransportError_retry ==
    /\ pc = "waiting"
    /\ pc' = "built"
    /\ UNCHANGED <<config, call, args, params, requests, page, outcome>>

\* The HTTP call fails: the error of the transport reaches the caller.
TransportError ==
    /\ pc = "waiting"
    /\ outcome' = Raise("GeocoderTimedOut")
    /\ pc' = "done"
    /\ args' = NoArgs
    /\ params' = NoParams
    /\ UNCHANGED <<config, call, requests, page>>

\* The caller has the outcome; the client is ready for the next call.
Finish ==
    /\ pc = "done"
    /\ pc' = "idle"
    /\ call' = NoCall
    /\ page' = NoPage
    /\ outcome' = NoOutcome
    /\ requests' = 0
    /\ UNCHANGED <<config, args, params>>

Next ==
    \/ BaiduGeocode
    \/ BaiduSearch
    \/ BaiduReverse
    \/ GaoDeGeocode
    \/ GaoDeSearch
    \/ GaoDeReverse
    \/ TencentGeocode
    \/ TencentReverse
    \/ CallGeocoder
    \/ Receive
    \/ TransportError
    \/ Finish

Spec == Init /\ [][Next]_vars

(***************************************************************************)
(* _check_status alone: the specification under which the status tables    *)
(* are checked.  A provider and a status value are drawn, and the check    *)
(* is applied to the status.                                               *)
(***************************************************************************)
IntRange(a, b) == {PyInt(n) : n \in a..b}
\* The decimal strings of the integers a..b
StrRange(a, b) == {PyStr(ToString(n)) : n \in a..b}
BothForms(S) == {PyInt(n) : n \in S} \cup {PyStr(ToString(n)) : n \in S}

StatusValues(provider) ==
    CASE provider = "GaoDe" ->
           StrRange(10000 - StatusSlack, 10017 + StatusSlack)
           \cup IntRange(10000 - StatusSlack, 10017 + StatusSlack)
           \cup StrRange(20000 - StatusSlack, 20803 + StatusSlack)
           \cup StrRange(30000, 30000 + StatusSlack)
           \cup {PyStr("300**"), PyStr("0"), PyStr(""), PyInt(0), PyNone}
      [] provider = "Baidu" ->
           BothForms((0 - StatusSlack)..(300 + StatusSlack))
           \cup {PyStr("2xx"), PyStr("3xx"), PyStr(""), PyNone}
      [] provider = "Tencent" ->
           BothForms((0 - StatusSlack)..(311 + StatusSlack))
           \cup {PyStr(""), PyNone}

InitStatus ==
    /\ config = [p \in Providers |->
                   CASE p = "Baidu" -> Baidu_init
                     [] p = "GaoDe" -> GaoDe_init
                     [] p = "Tencent" -> Tencent_init]
    /\ pc = "status"
    /\ \E provider \in Providers :
          /\ call = Call(provider, "_check_status", TRUE, NoQuery)
          /\ \E status \in StatusValues(provider) : page = Page(status, NoResult)
    /\ args = NoArgs
    /\ params = NoParams
    /\ requests = 0
    /\ outcome = NoOutcome

\* self._check_status(status)
CheckStatusStep ==
    /\ pc = "status"
    /\ outcome' = CheckStatus(call.provider, page.status)
    /\ pc' = "checked"
    /\ UNCHANGED <<config, call, args, params, requests, page>>

NextStatus == CheckStatusStep

SpecStatus == InitStatus /\ [][NextStatus]_vars

(***************************************************************************)
(* Calls of several threads on one client.  The state of Spec is kept per  *)
(* thread: every variable but config, which is the one client the threads  *)
(* share, is a function of the thread.  The steps of a call are those of   *)
(* Spec; the steps of different threads interleave in any order.           *)
(***************************************************************************)
NumThreads == 2

Threads == 1..NumThreads

\* The client __init__ of the provider constructs.
NewClient(provider) ==
    CASE provider = "Baidu" -> Baidu_init
      [] provider = "GaoDe" -> GaoDe_init
      [] provider = "Tencent" -> Tencent_init

\* The operation stores the page it received in self.doc.
Geocoder_self_doc(self, pg) == [self EXCEPT !.doc = "page"]

\* The attributes of the client after an operation has received its page:
\* the operations assign to no attribute of self.
Geocoder_self(self, pg) == self

\* The params the operation builds from the client and its arguments.
BuildParams(self, c, a) ==
    CASE c.provider = "Baidu" /\ c.op = "geocode" ->
           Baidu_geocode_params(self, a.city, a.ret_coordtype)
      [] c.provider = "Baidu" /\ c.op = "search" ->
           Baidu_search_params(self, a.city, a.bounds, a.location, a.radius,
                               a.tag, a.ret_coordtype, a.coordtype,
                               a.city_limit)
      [] c.provider = "Baidu" /\ c.op = "reverse" ->
           Baidu_reverse_params(self, c.query, a.coordtype)
      [] c.provider = "GaoDe" /\ c.op = "geocode" ->
           GaoDe_geocode_params(self, c.exactly_one, a.city)
      [] c.provider = "GaoDe" /\ c.op = "search" ->
           GaoDe_search_params(self, a.city)
      [] c.provider = "GaoDe" /\ c.op = "reverse" ->
           GaoDe_reverse_params(self, c.query)
      [] c.provider = "Tencent" /\ c.op = "geocode" ->
           Tencent_geocode_params(self)
      [] c.provider = "Tencent" /\ c.op = "reverse" ->
           Tencent_reverse_params(self, c.query)

\* The calls the threads make on a client of the provider: each operation
\* of the client, with and without optional arguments.
ThreadCalls(provider) ==
    CASE provider = "Baidu" ->
           {<<Call("Baidu", "geocode", TRUE, TextQuery),
              [NoArgs EXCEPT !.city = Text("city")]>>,
            <<Call("Baidu", "search", FALSE, TextQuery),
              [NoArgs EXCEPT !.bounds = PairQuery(3, -MaxCoord),
                             !.location = PairQuery(3, -MaxCoord)]>>,
            <<Call("Baidu", "reverse", TRUE, PairQuery(3, -MaxCoord)),
              [NoArgs EXCEPT !.coordtype = Text("coordtype")]>>}
      [] provider = "GaoDe" ->
           {<<Call("GaoDe", "geocode", FALSE, TextQuery),
              [NoArgs EXCEPT !.city = Text("city")]>>,
            <<Call("GaoDe", "search", TRUE, TextQuery), NoArgs>>,
            <<Call("GaoDe", "reverse", TRUE, PairQuery(MaxCoord, 3)), NoArgs>>}
      [] provider = "Tencent" ->
           {<<Call("Tencent", "geocode", TRUE, TextQuery), NoArgs>>,
            <<Call("Tencent", "geocode", FALSE, TextQuery), NoArgs>>,
            <<Call("Tencent", "reverse", TRUE, PairQuery(3, -MaxCoord)),
              NoArgs>>}

\* The pages the threads receive: a place under the success status, as a
\* list and as a dict, and no result under a failure status.
ThreadPages(provider) ==
    LET ok == IF provider = "GaoDe" THEN PyStr("10000") ELSE PyInt(0)
        ko == IF provider = "GaoDe" THEN PyStr("10003") ELSE PyInt(3)
        place == CHOOSE e \in Places(provider) :
                    e.name # NoText /\ e.loc.k \in {"dict", "str"}
    IN {Page(ok, ListResult(<<place>>)), Page(ok, DictResult(<<place>>)),
        Page(ko, NoResult)}

\* One client is constructed; no thread has called it.
InitThreads ==
    /\ \E provider \in Providers :
          config = [p \in {provider} |-> NewClient(p)]
    /\ pc = [t \in Threads |-> "idle"]
    /\ call = [t \in Threads |-> NoCall]
    /\ args = [t \in Threads |-> NoArgs]
    /\ params = [t \in Threads |-> NoParams]
    /\ requests = [t \in Threads |-> 0]
    /\ page = [t \in Threads |-> NoPage]
    /\ outcome = [t \in Threads |-> NoOutcome]

\* The thread calls an operation of the client, up to the url.
ThreadBegin(t) ==
    /\ pc[t] = "idle"
    /\ \E provider \in DOMAIN config :
          \E ca \in ThreadCalls(provider) :
             /\ call' = [call EXCEPT ![t] = ca[1]]
             /\ args' = [args EXCEPT ![t] = ca[2]]
             /\ params' = [params EXCEPT
                             ![t] = BuildParams(config[provider], ca[1], ca[2])]
    /\ pc' = [pc EXCEPT ![t] = "built"]
    /\ UNCHANGED <<config, requests, page, outcome>>

\* self._call_geocoder of the thread's call
ThreadCallGeocoder(t) ==
    /\ pc[t] = "built"
    /\ pc' = [pc EXCEPT ![t] = "waiting"]
    /\ requests' = [requests EXCEPT ![t] = @ + 1]
    /\ UNCHANGED <<config, call, args, params, page, outcome>>

\* The thread's HTTP call returns a page and the operation parses it.
ThreadReceive(t) ==
    /\ pc[t] = "waiting"
    /\ \E pg \in ThreadPages(call[t].provider) :
          /\ page' = [page EXCEPT ![t] = pg]
          /\ outcome' = [outcome EXCEPT ![t] = Parse(call[t], pg, params[t])]
          /\ config' = [config EXCEPT
                          ![call[t].provider] = Geocoder_self(@, pg)]
    /\ pc' = [pc EXCEPT ![t] = "done"]
    /\ UNCHANGED <<call, args, params, requests>>

\* The thread's HTTP call fails.
ThreadTransportError(t) ==
    /\ pc[t] = "waiting"
    /\ outcome' = [outcome EXCEPT ![t] = Raise("GeocoderTimedOut")]
    /\ pc' = [pc EXCEPT ![t] = "done"]
    /\ UNCHANGED <<config, call, args, params, requests, page>>

\* The thread's caller has the outcome.
ThreadFinish(t) ==
    /\ pc[t] = "done"
    /\ pc' = [pc EXCEPT ![t] = "idle"]
    /\ call' = [call EXCEPT ![t] = NoCall]
    /\ args' = [args EXCEPT ![t] = NoArgs]
    /\ params' = [params EXCEPT ![t] = NoParams]
    /\ requests' = [requests EXCEPT ![t] = 0]
    /\ page' = [page EXCEPT ![t] = NoPage]
    /\ outcome' = [outcome EXCEPT ![t] = NoOutcome]
    /\ UNCHANGED config

NextThreads ==
    \E t \in Threads :
       \/ ThreadBegin(t)
       \/ ThreadCallGeocoder(t)
       \/ ThreadReceive(t)
       \/ ThreadTransportError(t)
       \/ ThreadFinish(t)

SpecThreads == InitThreads /\ [][NextThreads]_vars

\* The status check of the provider has been applied to the drawn status.
Checked(provider) == pc = "checked" /\ call.provider = provider

(***************************************************************************)
(* C1.  GaoDe._check_status.                                               *)
(***************************************************************************)
\* The table of GaoDe with the given set of quota codes.
GaoDeTable(status, quota) ==
    IF status = PyStr("10000") THEN Return(NoneVal)
    ELSE IF status \in {PyStr("10001"), PyStr("10002")}
         THEN Raise(AuthenticationFailure)
    ELSE IF status \in quota THEN Raise(QuotaExceeded)
    ELSE Raise(QueryError)

\* C1 as stated: GaoDe._check_status returns normally for "10000", raises
\* AuthenticationFailure for "10001" and "10002", QuotaExceeded for "10003",
\* "10004", every code string from "10009" through "10017", every code string
\* from "20000" through "20803" and "300**", and QueryError for "10005"
\* through "10008" and for every other value.
C1_TableAsStated ==
    Checked("GaoDe") =>
        /\ outcome = GaoDeTable(page.status,
                                {PyStr("10003"), PyStr("10004"), PyStr("300**")}
                                \cup StrRange(10009, 10017)
                                \cup StrRange(20000, 20803))
        /\ page.status \in StrRange(10005, 10008) => outcome = Raise(QueryError)

\* C1 as amended: as stated, except that of the code strings from "20000"
\* through "20803" only "20000" through "20003" and "20800" through "20803"
\* raise QuotaExceeded; the code strings between them raise QueryError like
\* every other value.
C1_GaoDeTable ==
    Checked("GaoDe") =>
        /\ outcome = GaoDeTable(page.status,
                                {PyStr("10003"), PyStr("10004"), PyStr("300**")}
                                \cup StrRange(10009, 10017)
                                \cup StrRange(20000, 20003)
                                \cup StrRange(20800, 20803))
        /\ page.status \in StrRange(10005, 10008) => outcome = Raise(QueryError)
        /\ page.status \in StrRange(20004, 20799) => outcome = Raise(QueryError)

\* The check has raised QuotaExceeded for the last code of the table.
C1_Witness ==
    /\ Checked("GaoDe")
    /\ page.status = PyStr("20803")
    /\ outcome = Raise(QuotaExceeded)

(***************************************************************************)
(* C2.  Baidu._check_status.                                               *)
(***************************************************************************)
\* C2: Baidu._check_status returns normally for 0 and "0"; raises QueryError
\* for 1, 2, 5, 101 and "2xx", AuthenticationFailure for 3, QuotaExceeded for
\* 4 and "3xx", and QueryError for every other value; the integer and the
\* decimal-string form of each numeric code of the table give the same
\* outcome.
C2_BaiduTable ==
    Checked("Baidu") =>
        LET s == page.status IN
        /\ s \in BothForms({0}) => outcome = Return(NoneVal)
        /\ s \in BothForms({1, 2, 5, 101}) \cup {PyStr("2xx")}
              => outcome = Raise(QueryError)
        /\ s \in BothForms({3}) => outcome = Raise(AuthenticationFailure)
        /\ s \in BothForms({4}) \cup {PyStr("3xx")}
              => outcome = Raise(QuotaExceeded)
        /\ s \notin BothForms({0, 3, 4}) \cup {PyStr("3xx")}
              => outcome = Raise(QueryError)

\* The check has raised QuotaExceeded for the string form of the code 4.
C2_Witness ==
    /\ Checked("Baidu")
    /\ page.status = PyStr("4")
    /\ outcome = Raise(QuotaExceeded)

(***************************************************************************)
(* C3.  Tencent._check_status.                                             *)
(***************************************************************************)
\* C3: Tencent._check_status returns normally for 0; raises QueryError for
\* 110 and 306, AuthenticationFailure for 310, QuotaExceeded for 311, and
\* QueryError for every other value; the success status 0 never raises.
C3_TencentTable ==
    Checked("Tencent") =>
        LET s == page.status IN
        /\ s = PyInt(0) => outcome = Return(NoneVal)
        /\ s \in {PyInt(110), PyInt(306)} => outcome = Raise(QueryError)
        /\ s = PyInt(310) => outcome = Raise(AuthenticationFailure)
        /\ s = PyInt(311) => outcome = Raise(QuotaExceeded)
        /\ s \notin {PyInt(0), PyInt(310), PyInt(311)}
              => outcome = Raise(QueryError)

\* The check has raised QuotaExceeded for the code 311.
C3_Witness ==
    /\ Checked("Tencent")
    /\ page.status = PyInt(311)
    /\ outcome = Raise(QuotaExceeded)

(***************************************************************************)
(* The claims about the calls, checked under Spec.                         *)
(***************************************************************************)
\* A page has been received and parsed by the operation of the provider.
Responded(provider, op) ==
    pc = "done" /\ page # NoPage /\ call.provider = provider /\ call.op = op

\* The status tables of section 6 of the specification, GaoDe's with the
\* codes "20000"-"20003" and "20800"-"20803".
StatusTable(provider, status) ==
    CASE provider = "GaoDe" ->
           GaoDeTable(status,
                      {PyStr("10003"), PyStr("10004"), PyStr("300**")}
                      \cup StrRange(10009, 10017) \cup StrRange(20000, 20003)
                      \cup StrRange(20800, 20803))
      [] provider = "Baidu" ->
           IF status \in BothForms({0}) THEN Return(NoneVal)
           ELSE IF status \in BothForms({3}) THEN Raise(AuthenticationFailure)
           ELSE IF status \in BothForms({4}) \cup {PyStr("3xx")}
                THEN Raise(QuotaExceeded)
           ELSE Raise(QueryError)
      [] provider = "Tencent" ->
           IF status = PyInt(0) THEN Return(NoneVal)
           ELSE IF status = PyInt(310) THEN Raise(AuthenticationFailure)
           ELSE IF status = PyInt(311) THEN Raise(QuotaExceeded)
           ELSE Raise(QueryError)

\* The status of the page is a failure code of the provider's table.
FailureStatus(provider) == StatusTable(provider, page.status).kind = "raise"
\* The status of the page is the success code of the provider's table.
SuccessStatus(provider) == StatusTable(provider, page.status).kind = "return"

(***************************************************************************)
(* C4.  geocode on a failure status.                                       *)
(***************************************************************************)
\* C4 as stated: for each provider, geocode on a response whose status is a
\* failure code raises the error kind the provider's table assigns to the
\* code, whatever the rest of the response contains, and returns no result.
C4_GeocodeFailureAsStated ==
    \A p \in Providers :
        Responded(p, "geocode") /\ FailureStatus(p)
            => outcome = StatusTable(p, page.status)

\* C4 as amended: for each provider, geocode on a response whose status is a
\* failure code and whose result field is missing or empty raises the error
\* kind the provider's table assigns to the code, and returns no result.
C4_GeocodeFailure ==
    \A p \in Providers :
        Responded(p, "geocode") /\ FailureStatus(p) /\ Falsy(page.result)
            => outcome = StatusTable(p, page.status)

\* Tencent geocode has raised QuotaExceeded on a page of status 311.
C4_Witness ==
    /\ Responded("Tencent", "geocode")
    /\ page.status = PyInt(311)
    /\ Falsy(page.result)
    /\ outcome = Raise(QuotaExceeded)

(***************************************************************************)
(* C5.  reverse on a failure status.                                       *)
(***************************************************************************)
\* C5: for each provider, reverse on a response whose status is a failure
\* code raises the error kind the provider's table assigns to the code (one
\* of QueryError, AuthenticationFailure, QuotaExceeded), and fails in no
\* other way.
C5_ReverseFailure ==
    \A p \in Providers :
        Responded(p, "reverse") /\ FailureStatus(p)
            => /\ outcome = StatusTable(p, page.status)
               /\ outcome.exc \in ErrorKinds

(***************************************************************************)
(* C6.  A success status and no result field.                              *)
(***************************************************************************)
\* C6: for every operation of every provider, a response with a success
\* status and no result field yields None or an empty list, and no error.
C6_NoResultNoError ==
    \A p \in Providers : \A op \in {"geocode", "reverse", "search"} :
        Responded(p, op) /\ SuccessStatus(p) /\ page.result = NoResult
            => /\ outcome.kind = "return"
               /\ outcome.val \in {NoneVal, List(<<>>)}

(***************************************************************************)
(* C7.  The shape of what geocode returns.                                 *)
(***************************************************************************)
\* C7: for each provider and every success response, geocode with
\* exactly_one true returns a single Location or None, and geocode with
\* exactly_one false returns a list of Locations, the empty list when the
\* response has no results.
C7_GeocodeShape ==
    \A p \in Providers :
        Responded(p, "geocode") /\ SuccessStatus(p)
            => /\ outcome.kind = "return"
               /\ call.exactly_one => outcome.val.k \in {"one", "none"}
               /\ ~call.exactly_one => outcome.val.k = "list"
               /\ ~call.exactly_one /\ Falsy(page.result)
                     => outcome.val = List(<<>>)

(***************************************************************************)
(* C8.  GaoDe.reverse of a point.                                          *)
(***************************************************************************)
\* C8: GaoDe.reverse of a point (latitude, longitude), on a response with a
\* regeocode entry, returns one Location whose latitude is the latitude of
\* the point and whose longitude is the longitude of the point, as they
\* stand in the "lat,lng" string the point was coerced to.
C8_ReverseCoordinates ==
    /\ Responded("GaoDe", "reverse")
    /\ call.query.k = "pair"
    /\ page.result.k = "dict" /\ page.result.items # <<>>
    /\ page.result.items[1].name # NoText
    => /\ outcome.kind = "return"
       /\ outcome.val.k = "one"
       /\ outcome.val.locs[1].latitude = StrCoord(IntToStr(call.query.lat))
       /\ outcome.val.locs[1].longitude = StrCoord(IntToStr(call.query.lng))

(***************************************************************************)
(* C9.  Baidu.search with exactly_one false.                               *)
(***************************************************************************)
\* The Location of a hit that has a location.
HitLocation(hit) ==
    [address |-> hit.name, latitude |-> NumCoord(hit.loc.lat),
     longitude |-> NumCoord(hit.loc.lng), raw |-> hit]

HasLocation(hit) == hit.loc.k # "missing"

\* C9: Baidu.search with exactly_one false returns the hits of the results
\* list that have a location, as Locations and in their order: no hit
\* without a location is in it, no hit with a location is left out, and a
\* hit without a location raises nothing.
C9_SearchFilter ==
    /\ Responded("Baidu", "search")
    /\ ~call.exactly_one
    /\ page.result.k = "list" /\ page.result.items # <<>>
    => LET kept == SelectSeq(page.result.items, HasLocation) IN
       outcome = Return(List([i \in 1..Len(kept) |-> HitLocation(kept[i])]))

\* A hit without location before a hit with one: only the second is returned.
C9_Witness ==
    /\ Responded("Baidu", "search")
    /\ ~call.exactly_one
    /\ page.result.k = "list" /\ Len(page.result.items) = 2
    /\ ~HasLocation(page.result.items[1])
    /\ HasLocation(page.result.items[2])
    /\ outcome.kind = "return"
    /\ Len(outcome.val.locs) = 1
    /\ outcome.val.locs[1].raw = page.result.items[2]

(***************************************************************************)
(* C10.  The location string of a GaoDe entry.                             *)
(***************************************************************************)
\* The location of the entry is a string with exactly one comma.
OneComma(place) ==
    /\ place.loc.k = "str"
    /\ Cardinality({i \in 1..Len(place.loc.cs) : place.loc.cs[i] = Comma}) = 1

CommaAt(cs) == CHOOSE i \in 1..Len(cs) : cs[i] = Comma

\* The Location of an entry whose location is "a,b": the longitude is a, the
\* latitude is b, the name is the name of the entry.
EntryLocation(place) ==
    LET cs == place.loc.cs
        a == SubSeq(cs, 1, CommaAt(cs) - 1)
        b == SubSeq(cs, CommaAt(cs) + 1, Len(cs))
    IN [address |-> place.name, latitude |-> StrCoord(b),
        longitude |-> StrCoord(a), raw |-> place]

\* C10: GaoDe geocode and search read the location string "a,b" of an entry
\* as longitude a and latitude b, and give the result the pair (latitude,
\* longitude) and the name of the entry.
C10_LocationString ==
    \A op \in {"geocode", "search"} :
        /\ Responded("GaoDe", op)
        /\ page.result.k = "list" /\ page.result.items # <<>>
        => LET items == page.result.items IN
           /\ call.exactly_one /\ OneComma(items[1])
                 => outcome = Return(One(EntryLocation(items[1])))
           /\ ~call.exactly_one /\ (\A i \in 1..Len(items) : OneComma(items[i]))
                 => outcome = Return(List([i \in 1..Len(items) |->
                                              EntryLocation(items[i])]))

\* geocode of an entry with location "-MaxCoord,3" has returned the longitude
\* -MaxCoord and the latitude 3.
C10_Witness ==
    /\ Responded("GaoDe", "geocode")
    /\ call.exactly_one
    /\ outcome.kind = "return" /\ outcome.val.k = "one"
    /\ outcome.val.locs[1].raw.loc.cs = JoinComma(IntToStr(-MaxCoord), IntToStr(3))
    /\ outcome.val.locs[1].longitude = StrCoord(IntToStr(-MaxCoord))
    /\ outcome.val.locs[1].latitude = StrCoord(IntToStr(3))
    /\ outcome.val.locs[1].address = Text("X")

(***************************************************************************)
(* C11.  Calls of several threads on one client.                           *)
(***************************************************************************)
\* The outcome of the call run alone on a newly constructed client, given
\* the response of its HTTP call (a page, or NoPage for a failed call).
Alone(c, a, pg) ==
    IF pg = NoPage THEN Raise("GeocoderTimedOut")
    ELSE Parse(c, pg, BuildParams(NewClient(c.provider), c, a))

\* C11: on one client, in any interleaving of geocode, reverse and search
\* calls, the configuration of the client (api_key, scheme, endpoint URLs,
\* doc) stays as constructed, and the request and the outcome of each call
\* are functions of its own arguments and its own HTTP response: they are
\* those of the same call run alone.
C11_CallsIndependent ==
    /\ \A p \in DOMAIN config : config[p] = NewClient(p)
    /\ \A t \in Threads :
          /\ pc[t] # "idle" =>
                params[t] = BuildParams(NewClient(call[t].provider),
                                        call[t], args[t])
          /\ pc[t] = "done" =>
                outcome[t] = Alone(call[t], args[t], page[t])

\* Two threads have run different operations on the client at once and got
\* different pages: one has a result, the other an error.
C11_Witness ==
    /\ pc[1] = "done" /\ pc[2] = "done"
    /\ call[1].op # call[2].op
    /\ page[1] # NoPage /\ page[2] # NoPage /\ page[1] # page[2]
    /\ outcome[1].kind = "return" /\ outcome[2].kind = "raise"

(***************************************************************************)
(* C12.  One HTTP call per invocation.                                     *)
(***************************************************************************)
\* The step is the HTTP call of the running invocation.
HttpCall == requests' = requests + 1

\* The step gives the running invocation its outcome.
Outcome == outcome = NoOutcome /\ outcome' # NoOutcome

\* C12: every invocation of geocode, reverse or search issues exactly one
\* HTTP call, after its parameters are built and before any parsing or status
\* check; the outcome comes after that one call with no second call, from
\* the parser when a page came back (its result or its error) and as the
\* error of the transport, with no parsing, when the call failed.
C12_OneHttpCall ==
    [][/\ HttpCall =>
            /\ requests = 0
            /\ params # NoParams /\ params' = params
            /\ page = NoPage /\ page' = NoPage
            /\ outcome = NoOutcome /\ outcome' = NoOutcome
       /\ Outcome =>
            /\ requests = 1 /\ requests' = 1
            /\ page = NoPage
            /\ page' # NoPage => outcome' = Parse(call, page', params)
            /\ page' = NoPage => outcome' = Raise("GeocoderTimedOut")
       /\ outcome # NoOutcome =>
            /\ requests = 1
            /\ ~HttpCall
            /\ outcome' \in {outcome, NoOutcome}]_vars

\* A call has raised the error of the transport after its one HTTP call and
\* without a page.
C12_Witness ==
    /\ pc = "done"
    /\ requests = 1
    /\ page = NoPage
    /\ outcome = Raise("GeocoderTimedOut")

(***************************************************************************)
(* C13.  The parameters of a request.                                      *)
(***************************************************************************)
\* The request of the running call is built.
Built == pc \in {"built", "waiting"}

\* The parameter that carries the API key.
KeyParam(provider) == IF provider = "Baidu" THEN "ak" ELSE "key"

\* The parameters every request of the operation carries.
FixedParams(c) ==
    {KeyParam(c.provider), "output"}
    \cup (CASE c.op = "reverse" -> {"location"}
            [] c.op = "geocode" -> {"address"}
            [] c.op = "search" ->
                 IF c.provider = "Baidu" THEN {"query", "scope"}
                 ELSE {"keywords"})

\* The caller supplied the argument the optional parameter is made from.
ArgSupplied(key) ==
    CASE key \in {"city", "region"} -> args.city # NoText
      [] key = "bounds" -> args.bounds # NoQuery
      [] key = "location" -> args.location # NoQuery
      [] key = "radius" -> args.radius # NoText
      [] key = "tag" -> args.tag # NoText
      [] key = "ret_coordtype" -> args.ret_coordtype # NoText
      [] key \in {"coordtype", "coord_type"} -> args.coordtype # NoText
      [] key = "city_limit" -> args.city_limit
      [] key = "batch" -> ~call.exactly_one
      [] OTHER -> FALSE

\* C13: every request built by geocode, reverse and search of every provider
\* carries the API key and output=json, and an optional parameter is in the
\* request only if the caller supplied its argument; in Baidu.search bounds
\* is in the request exactly when bounds and location are both supplied,
\* location and radius exactly when both are supplied, and in GaoDe.geocode
\* batch=true is in the request exactly when exactly_one is false.
C13_RequestParams ==
    Built =>
       /\ FixedParams(call) \subseteq DOMAIN params
       /\ params[KeyParam(call.provider)]
             = ParamText(config[call.provider].api_key)
       /\ params["output"] = ParamText("json")
       /\ \A key \in DOMAIN params \ FixedParams(call) : ArgSupplied(key)
       /\ call.provider = "Baidu" /\ call.op = "search" =>
             /\ "bounds" \in DOMAIN params
                   <=> args.bounds # NoQuery /\ args.location # NoQuery
             /\ "location" \in DOMAIN params
                   <=> args.location # NoQuery /\ args.radius # NoText
             /\ "radius" \in DOMAIN params
                   <=> args.location # NoQuery /\ args.radius # NoText
       /\ call.provider = "GaoDe" /\ call.op = "geocode" =>
             /\ "batch" \in DOMAIN params <=> ~call.exactly_one
             /\ "batch" \in DOMAIN params
                   => params["batch"] = ParamText("true")

\* A request of Baidu.search with bounds supplied and no location: it has no
\* bounds parameter.
C13_Witness ==
    /\ pc = "waiting"
    /\ call.provider = "Baidu" /\ call.op = "search"
    /\ args.bounds # NoQuery /\ args.location = NoQuery
    /\ "bounds" \notin DOMAIN params
    /\ params["ak"] = ParamText("KEY")

(***************************************************************************)
(* C14.  Baidu.search with exactly_one.                                    *)
(***************************************************************************)
\* C14: Baidu.search with exactly_one true looks only at the first hit of a
\* non-empty results list: it returns the Location of that hit when the hit
\* has a location and None when it has not, whatever the later hits are; on
\* an empty or missing results list with the success status it returns the
\* empty list, not None.
C14_SearchExactlyOne ==
    /\ Responded("Baidu", "search")
    /\ call.exactly_one
    => /\ page.result.k = "list" /\ page.result.items # <<>>
          => LET first == page.result.items[1] IN
             outcome = IF HasLocation(first)
                       THEN Return(One(HitLocation(first)))
                       ELSE Return(NoneVal)
       /\ Falsy(page.result) /\ SuccessStatus("Baidu")
          => outcome = Return(List(<<>>))

\* The first hit has no location and the second has one: None is returned.
C14_Witness ==
    /\ Responded("Baidu", "search")
    /\ call.exactly_one
    /\ page.result.k = "list" /\ Len(page.result.items) = 2
    /\ ~HasLocation(page.result.items[1])
    /\ HasLocation(page.result.items[2])
    /\ outcome = Return(NoneVal)

====
